---------------------------- MODULE Spec2Model ----------------------------
(***************************************************************************)
(* A model of scripts/run_queries.py: the SQL statement splitter           *)
(* (_split_sql_statements), the plan distiller (_distill_plan) and the     *)
(* run loop (_run_queries, _write_summary).                                *)
(*                                                                         *)
(* Text is a sequence of one-character strings.  Python positions are      *)
(* 0-based; here i is 1-based, so Python's text[i] is text[i] with i one   *)
(* larger, and the loop test i < n reads i <= Len(text).                   *)
(***************************************************************************)
EXTENDS Integers, Sequences, FiniteSets, TLC

VARIABLES
    \* ---- _split_sql_statements ----
    text,               \* the input text
    i,                  \* read position (1-based)
    buf,                \* characters of the statement being accumulated
    statements,         \* statements emitted so far
    in_single,          \* inside '...'
    in_double,          \* inside "..."
    in_line_comment,    \* inside -- ... newline
    in_block_comment,   \* inside /* ... */
    in_dollar,          \* the open dollar tag, <<>> for Python's None
    pc,                 \* "scan" while the loop runs, "done" after return
    normal_semis,       \* history: number of ; scanned with every flag off
    pass,               \* history: 1 for the split of the input, 2 for the re-split
    first,              \* history: result of the first split (set by Rejoin)
    first_balanced,     \* history: the first split ended with nothing open
    \* ---- _distill_plan ----
    plan,               \* the raw plan object handed to _distill_plan
    distilled,          \* what _distill_plan returned
    dpc,                \* "start" before the call, "done" after it
    \* ---- main, _run_queries, _write_summary ----
    queries,            \* what _iter_queries yields, in order
    idx,                \* idx of the enumerate loop
    raw_plan,           \* raw_plan of the current iteration
    elapsed_ms,         \* elapsed_ms of the current iteration
    results,            \* results, the list of QueryResult
    files,              \* plan artifacts this run wrote to out_dir: name -> content
    summary,            \* the summary file of this run: written or not, and its lines
    rpc,                \* where the run stands
    error,              \* the exception that ended the run, "none" without one
    submitted           \* history: the statements handed to cursor.execute

splitVars == <<text, i, buf, statements, in_single, in_double, in_line_comment,
               in_block_comment, in_dollar, pc, normal_semis, pass, first,
               first_balanced>>

planVars == <<plan, distilled, dpc>>

runVars == <<queries, idx, raw_plan, elapsed_ms, results, files, summary, rpc,
             error, submitted>>

vars == <<splitVars, planVars, runVars>>

---------------------------------------------------------------------------
(* Bounds and input sets *)

MaxSegs == 3

\* Pieces the inputs are built from: every delimiter of the splitter, the
\* lone characters the two-character delimiters are made of, a letter and
\* the two kinds of whitespace.
Fragments ==
    { <<";">>, <<"'">>, <<"\"">>, <<"-", "-">>, <<"\n">>, <<"/", "*">>,
      <<"*", "/">>, <<"$", "$">>, <<"$", "a", "$">>, <<"a">>, <<" ">>,
      <<"-">>, <<"/">>, <<"*">>, <<"$">> }

RECURSIVE Concat(_)
Concat(ss) == IF ss = <<>> THEN <<>> ELSE Head(ss) \o Concat(Tail(ss))

Texts == { Concat(ss) : ss \in UNION { [1..k -> Fragments] : k \in 0..MaxSegs } }

---------------------------------------------------------------------------
(* Helpers of _split_sql_statements *)

\* str.isspace() on one character, over the whitespace of the inputs.
Whitespace == {" ", "\n", "\t", "\r"}
IsSpace(c) == c \in Whitespace

\* The character class [A-Za-z0-9_] of dollar_re.
TagChars ==
    { "a", "b", "c", "d", "e", "f", "g", "h", "i", "j", "k", "l", "m", "n",
      "o", "p", "q", "r", "s", "t", "u", "v", "w", "x", "y", "z",
      "A", "B", "C", "D", "E", "F", "G", "H", "I", "J", "K", "L", "M", "N",
      "O", "P", "Q", "R", "S", "T", "U", "V", "W", "X", "Y", "Z",
      "0", "1", "2", "3", "4", "5", "6", "7", "8", "9", "_" }

\* Position of the $ closing a tag whose body starts at j, 0 when the
\* characters from j on are not [A-Za-z0-9_]*\$.
RECURSIVE TagEnd(_, _)
TagEnd(t, j) ==
    IF j > Len(t) THEN 0
    ELSE IF t[j] = "$" THEN j
    ELSE IF t[j] \in TagChars THEN TagEnd(t, j + 1)
    ELSE 0

\* dollar_re.match(text[i:]): the tag matched at position p, <<>> for no match.
DollarMatch(t, p) ==
    IF p <= Len(t) /\ t[p] = "$" /\ TagEnd(t, p + 1) # 0
    THEN SubSeq(t, p, TagEnd(t, p + 1))
    ELSE <<>>

\* text.startswith(prefix, i)
StartsWith(t, prefix, p) ==
    /\ p + Len(prefix) - 1 <= Len(t)
    /\ SubSeq(t, p, p + Len(prefix) - 1) = prefix

\* str.strip()
RECURSIVE LStrip(_)
LStrip(s) == IF s # <<>> /\ IsSpace(Head(s)) THEN LStrip(Tail(s)) ELSE s
RECURSIVE RStrip(_)
RStrip(s) ==
    IF s # <<>> /\ IsSpace(s[Len(s)]) THEN RStrip(SubSeq(s, 1, Len(s) - 1)) ELSE s
Strip(s) == RStrip(LStrip(s))

\* _iter_queries: the statements whose strip() is not empty.
IterQueries(ss) == SelectSeq(ss, LAMBDA q : Strip(q) # <<>>)

\* ch and nxt of the loop body
Ch == text[i]
Nxt == IF i + 1 <= Len(text) THEN text[i + 1] ELSE ""

\* The loop test `while i < n`.
Scanning == pc = "scan" /\ i <= Len(text)

\* Every mode flag off.
NormalMode ==
    /\ ~in_single /\ ~in_double
    /\ ~in_line_comment /\ ~in_block_comment
    /\ in_dollar = <<>>

\* History of the scan: a ; read while every flag is off is counted.
CountSemis ==
    normal_semis' = normal_semis + (IF Ch = ";" /\ NormalMode THEN 1 ELSE 0)

\* The first three branches (line comment, block comment, dollar) were not taken.
NoSkipMode == ~in_line_comment /\ ~in_block_comment /\ in_dollar = <<>>

\* The guard `if not in_single and not in_double` is reached and true.
Unquoted == NoSkipMode /\ ~in_single /\ ~in_double

\* `if buf and not buf[-1].isspace(): buf.append(" ")`.  buf holds single
\* characters here; the multi-character elements Python appends (a dollar
\* tag) end in "$", so the test on the last character is the same.
WithSpace(b) ==
    IF b # <<>> /\ ~IsSpace(b[Len(b)]) THEN Append(b, " ") ELSE b

OpensLineComment == Ch = "-" /\ Nxt = "-"
OpensBlockComment == Ch = "/" /\ Nxt = "*"
OpensDollar == Ch = "$" /\ DollarMatch(text, i) # <<>>

\* The unquoted block fell through to the code after it.
AtPlain ==
    /\ Scanning /\ Unquoted
    /\ ~OpensLineComment /\ ~OpensBlockComment /\ ~OpensDollar

\* What the scan loop never touches.
outerVars == <<pass, first, first_balanced, planVars, runVars>>

---------------------------------------------------------------------------
(* The loop body of _split_sql_statements, one action per branch *)

LineCommentStep ==
    /\ Scanning
    /\ in_line_comment
    /\ in_line_comment' = (Ch # "\n")
    /\ i' = i + 1
    /\ CountSemis
    /\ UNCHANGED <<text, buf, statements, in_single, in_double,
                   in_block_comment, in_dollar, pc, outerVars>>

\* Mutant: inside a block comment a * that does not close it is not
\* stepped over.
BlockCommentStep_StallsOnStar ==
    /\ Scanning
    /\ ~in_line_comment /\ in_block_comment
    /\ IF Ch = "*" /\ Nxt = "/"
       THEN i' = i + 2 /\ in_block_comment' = FALSE
       ELSE /\ i' = IF Ch = "*" THEN i ELSE i + 1
            /\ in_block_comment' = in_block_comment
    /\ CountSemis
    /\ UNCHANGED <<text, buf, statements, in_single, in_double,
                   in_line_comment, in_dollar, pc, outerVars>>

BlockCommentStep ==
    /\ Scanning
    /\ ~in_line_comment /\ in_block_comment
    /\ IF Ch = "*" /\ Nxt = "/"
       THEN i' = i + 2 /\ in_block_comment' = FALSE
       ELSE i' = i + 1 /\ in_block_comment' = in_block_comment
    /\ CountSemis
    /\ UNCHANGED <<text, buf, statements, in_single, in_double,
                   in_line_comment, in_dollar, pc, outerVars>>

\* Mutant: any "$" closes the region, whatever the tag.
DollarStep_AnyDollarCloses ==
    /\ Scanning
    /\ ~in_line_comment /\ ~in_block_comment /\ in_dollar # <<>>
    /\ IF Ch = "$"
       THEN /\ buf' = Append(buf, Ch)
            /\ i' = i + 1
            /\ in_dollar' = <<>>
       ELSE /\ buf' = Append(buf, Ch)
            /\ i' = i + 1
            /\ in_dollar' = in_dollar
    /\ CountSemis
    /\ UNCHANGED <<text, statements, in_single, in_double, in_line_comment,
                   in_block_comment, pc, outerVars>>

DollarStep ==
    /\ Scanning
    /\ ~in_line_comment /\ ~in_block_comment /\ in_dollar # <<>>
    /\ IF StartsWith(text, in_dollar, i)
       THEN /\ buf' = buf \o in_dollar
            /\ i' = i + Len(in_dollar)
            /\ in_dollar' = <<>>
       ELSE /\ buf' = Append(buf, Ch)
            /\ i' = i + 1
            /\ in_dollar' = in_dollar
    /\ CountSemis
    /\ UNCHANGED <<text, statements, in_single, in_double, in_line_comment,
                   in_block_comment, pc, outerVars>>

\* Mutant: the comment opener is dropped without the separating space.
EnterLineComment_NoSpace ==
    /\ Scanning /\ Unquoted
    /\ OpensLineComment
    /\ buf' = buf
    /\ in_line_comment' = TRUE
    /\ i' = i + 2
    /\ CountSemis
    /\ UNCHANGED <<text, statements, in_single, in_double, in_block_comment,
                   in_dollar, pc, outerVars>>

\* Mutant: the guard `if not in_single and not in_double` is missing, so
\* that -- opens a line comment inside a quoted region as well.
EnterLineComment_InsideQuotes ==
    /\ Scanning /\ NoSkipMode
    /\ OpensLineComment
    /\ buf' = WithSpace(buf)
    /\ in_line_comment' = TRUE
    /\ i' = i + 2
    /\ CountSemis
    /\ UNCHANGED <<text, statements, in_single, in_double, in_block_comment,
                   in_dollar, pc, outerVars>>

EnterLineComment ==
    /\ Scanning /\ Unquoted
    /\ OpensLineComment
    /\ buf' = WithSpace(buf)
    /\ in_line_comment' = TRUE
    /\ i' = i + 2
    /\ CountSemis
    /\ UNCHANGED <<text, statements, in_single, in_double, in_block_comment,
                   in_dollar, pc, outerVars>>

EnterBlockComment ==
    /\ Scanning /\ Unquoted
    /\ ~OpensLineComment /\ OpensBlockComment
    /\ buf' = WithSpace(buf)
    /\ in_block_comment' = TRUE
    /\ i' = i + 2
    /\ CountSemis
    /\ UNCHANGED <<text, statements, in_single, in_double, in_line_comment,
                   in_dollar, pc, outerVars>>

\* Mutant: the opening tag is not copied into the statement.
EnterDollar_TagDropped ==
    /\ Scanning /\ Unquoted
    /\ ~OpensLineComment /\ ~OpensBlockComment /\ OpensDollar
    /\ in_dollar' = DollarMatch(text, i)
    /\ buf' = buf
    /\ i' = i + Len(DollarMatch(text, i))
    /\ CountSemis
    /\ UNCHANGED <<text, statements, in_single, in_double, in_line_comment,
                   in_block_comment, pc, outerVars>>

EnterDollar ==
    /\ Scanning /\ Unquoted
    /\ ~OpensLineComment /\ ~OpensBlockComment /\ OpensDollar
    /\ in_dollar' = DollarMatch(text, i)
    /\ buf' = buf \o DollarMatch(text, i)
    /\ i' = i + Len(DollarMatch(text, i))
    /\ CountSemis
    /\ UNCHANGED <<text, statements, in_single, in_double, in_line_comment,
                   in_block_comment, pc, outerVars>>

\* Mutant: no doubled-quote escape, the first quote met closes the string.
SingleStep_NoEscape ==
    /\ Scanning /\ NoSkipMode
    /\ in_single
    /\ in_single' = (Ch # "'")
    /\ buf' = Append(buf, Ch)
    /\ i' = i + 1
    /\ CountSemis
    /\ UNCHANGED <<text, statements, in_double, in_line_comment,
                   in_block_comment, in_dollar, pc, outerVars>>

SingleStep ==
    /\ Scanning /\ NoSkipMode
    /\ in_single
    /\ IF Ch = "'" /\ Nxt = "'"
       THEN /\ buf' = buf \o <<Ch, Nxt>>
            /\ i' = i + 2
            /\ in_single' = in_single
       ELSE /\ in_single' = (Ch # "'")
            /\ buf' = Append(buf, Ch)
            /\ i' = i + 1
    /\ CountSemis
    /\ UNCHANGED <<text, statements, in_double, in_line_comment,
                   in_block_comment, in_dollar, pc, outerVars>>

DoubleStep ==
    /\ Scanning /\ NoSkipMode
    /\ ~in_single /\ in_double
    /\ IF Ch = "\"" /\ Nxt = "\""
       THEN /\ buf' = buf \o <<Ch, Nxt>>
            /\ i' = i + 2
            /\ in_double' = in_double
       ELSE /\ in_double' = (Ch # "\"")
            /\ buf' = Append(buf, Ch)
            /\ i' = i + 1
    /\ CountSemis
    /\ UNCHANGED <<text, statements, in_single, in_line_comment,
                   in_block_comment, in_dollar, pc, outerVars>>

EnterSingle ==
    /\ AtPlain
    /\ Ch = "'"
    /\ in_single' = TRUE
    /\ buf' = Append(buf, Ch)
    /\ i' = i + 1
    /\ CountSemis
    /\ UNCHANGED <<text, statements, in_double, in_line_comment,
                   in_block_comment, in_dollar, pc, outerVars>>

EnterDouble ==
    /\ AtPlain
    /\ Ch # "'" /\ Ch = "\""
    /\ in_double' = TRUE
    /\ buf' = Append(buf, Ch)
    /\ i' = i + 1
    /\ CountSemis
    /\ UNCHANGED <<text, statements, in_single, in_line_comment,
                   in_block_comment, in_dollar, pc, outerVars>>

\* Mutant: the ; test runs before the quote branches.
Semicolon_InsideQuotes ==
    /\ Scanning /\ NoSkipMode
    /\ Ch = ";"
    /\ statements' = IF Strip(buf) # <<>>
                     THEN Append(statements, Strip(buf))
                     ELSE statements
    /\ buf' = <<>>
    /\ i' = i + 1
    /\ CountSemis
    /\ UNCHANGED <<text, in_single, in_double, in_line_comment,
                   in_block_comment, in_dollar, pc, outerVars>>

\* Mutant: the statement is appended without the `if statement` test.
Semicolon_KeepsEmpty ==
    /\ AtPlain
    /\ Ch # "'" /\ Ch # "\"" /\ Ch = ";"
    /\ statements' = Append(statements, Strip(buf))
    /\ buf' = <<>>
    /\ i' = i + 1
    /\ CountSemis
    /\ UNCHANGED <<text, in_single, in_double, in_line_comment,
                   in_block_comment, in_dollar, pc, outerVars>>

Semicolon ==
    /\ AtPlain
    /\ Ch # "'" /\ Ch # "\"" /\ Ch = ";"
    /\ statements' = IF Strip(buf) # <<>>
                     THEN Append(statements, Strip(buf))
                     ELSE statements
    /\ buf' = <<>>
    /\ i' = i + 1
    /\ CountSemis
    /\ UNCHANGED <<text, in_single, in_double, in_line_comment,
                   in_block_comment, in_dollar, pc, outerVars>>

Plain ==
    /\ AtPlain
    /\ Ch # "'" /\ Ch # "\"" /\ Ch # ";"
    /\ buf' = Append(buf, Ch)
    /\ i' = i + 1
    /\ CountSemis
    /\ UNCHANGED <<text, statements, in_single, in_double, in_line_comment,
                   in_block_comment, in_dollar, pc, outerVars>>

\* Mutant: the list is returned without the tail.
Finish_TailDropped ==
    /\ pc = "scan" /\ i > Len(text)
    /\ statements' = statements
    /\ pc' = "done"
    /\ UNCHANGED <<text, i, buf, in_single, in_double, in_line_comment,
                   in_block_comment, in_dollar, normal_semis, outerVars>>

\* After the loop: the tail is emitted and the list returned.
Finish ==
    /\ pc = "scan" /\ i > Len(text)
    /\ statements' = IF Strip(buf) # <<>>
                     THEN Append(statements, Strip(buf))
                     ELSE statements
    /\ pc' = "done"
    /\ UNCHANGED <<text, i, buf, in_single, in_double, in_line_comment,
                   in_block_comment, in_dollar, normal_semis, outerVars>>

ScanStep ==
    \/ LineCommentStep
    \/ BlockCommentStep
    \/ DollarStep
    \/ EnterLineComment
    \/ EnterBlockComment
    \/ EnterDollar
    \/ SingleStep
    \/ DoubleStep
    \/ EnterSingle
    \/ EnterDouble
    \/ Semicolon
    \/ Plain
    \/ Finish

\* The state at the top of _split_sql_statements, called on t.
SplitStart(t) ==
    /\ text = t
    /\ i = 1
    /\ buf = <<>>
    /\ statements = <<>>
    /\ in_single = FALSE
    /\ in_double = FALSE
    /\ in_line_comment = FALSE
    /\ in_block_comment = FALSE
    /\ in_dollar = <<>>
    /\ pc = "scan"
    /\ normal_semis = 0

---------------------------------------------------------------------------
(* The round trip of spec section 8: the statements of a finished split   *)
(* are joined with ";" and the joined text is split again.                 *)

RECURSIVE Join(_)
Join(ss) ==
    IF ss = <<>> THEN <<>>
    ELSE IF Len(ss) = 1 THEN Head(ss)
    ELSE Head(ss) \o <<";">> \o Join(Tail(ss))

\* Nothing is left open at the end of the scan.  A line comment ends at the
\* end of the input as it does at a newline.
Balanced ==
    ~in_single /\ ~in_double /\ ~in_block_comment /\ in_dollar = <<>>

Rejoin ==
    /\ pc = "done" /\ pass = 1
    /\ first' = statements
    /\ first_balanced' = Balanced
    /\ pass' = 2
    /\ text' = Join(statements)
    /\ i' = 1
    /\ buf' = <<>>
    /\ statements' = <<>>
    /\ in_single' = FALSE
    /\ in_double' = FALSE
    /\ in_line_comment' = FALSE
    /\ in_block_comment' = FALSE
    /\ in_dollar' = <<>>
    /\ pc' = "scan"
    /\ normal_semis' = 0
    /\ UNCHANGED <<planVars, runVars>>



---------------------------------------------------------------------------
(* JSON values: the plan EXPLAIN returns and what the distiller builds.    *)
(* Every value carries its kind, so that `is None` and isinstance(x, dict) *)
(* can be asked of it; a dict's v is a function from its keys.             *)

None == [k |-> "null"]
Num(n) == [k |-> "num", v |-> n]
Str(x) == [k |-> "str", v |-> x]
List(q) == [k |-> "list", v |-> q]
Dict(f) == [k |-> "dict", v |-> f]

IsDict(j) == j.k = "dict"

\* d.get(key)
Get(d, key) == IF key \in DOMAIN d.v THEN d.v[key] ELSE None

\* payload[key] = value
Put(payload, key, value) ==
    [x \in (DOMAIN payload) \cup {key} |-> IF x = key THEN value ELSE payload[x]]

\* Python truth of a value, as `or` tests it.
Truthy(j) ==
    CASE j.k = "null" -> FALSE
      [] j.k = "num"  -> j.v # 0
      [] j.k = "str"  -> j.v # ""
      [] j.k = "list" -> j.v # <<>>
      [] j.k = "dict" -> DOMAIN j.v # {}

---------------------------------------------------------------------------
(* _summarize_plan, _add_if_present, _extract_plan_nodes, _distill_plan *)

SummarizePlan(p) ==
    [ planning_time  |-> Get(p, "Planning Time"),
      execution_time |-> Get(p, "Execution Time"),
      top_rows       |-> IF IsDict(Get(p, "Plan"))
                         THEN Get(Get(p, "Plan"), "Actual Rows")
                         ELSE None ]

\* Mutant: the field is copied whether or not the source has it.
AddIfPresent_NullFilled(payload, node, key, out_key) ==
    Put(payload, out_key, Get(node, key))

AddIfPresent(payload, node, key, out_key) ==
    IF Get(node, key) # None
    THEN Put(payload, out_key, Get(node, key))
    ELSE payload

\* The calls of _add_if_present in _extract_plan_nodes, in their order:
\* <<key of the source node, key of the output node>>.
FieldPairs ==
    << <<"Relation Name", "relation">>,
       <<"Index Name", "index">>,
       <<"Actual Rows", "actual_rows">>,
       <<"Actual Loops", "actual_loops">>,
       <<"Actual Total Time", "actual_total_time_ms">>,
       <<"Plan Rows", "plan_rows">>,
       <<"Plan Width", "plan_width">>,
       <<"Total Cost", "plan_total_cost">>,
       <<"Filter", "filter">>,
       <<"Index Cond", "index_cond">>,
       <<"Recheck Cond", "recheck_cond">>,
       <<"Hash Cond", "hash_cond">>,
       <<"Merge Cond", "merge_cond">>,
       <<"Join Filter", "join_filter">>,
       <<"Sort Key", "sort_key">>,
       <<"Group Key", "group_key">>,
       <<"Shared Hit Blocks", "shared_hit_blocks">>,
       <<"Shared Read Blocks", "shared_read_blocks">>,
       <<"Shared Dirtied Blocks", "shared_dirtied_blocks">>,
       <<"Shared Written Blocks", "shared_written_blocks">>,
       <<"Temp Read Blocks", "temp_read_blocks">>,
       <<"Temp Written Blocks", "temp_written_blocks">> >>

\* The calls from the j-th on, applied to payload.
RECURSIVE AddFields(_, _, _)
AddFields(payload, node, j) ==
    IF j > Len(FieldPairs) THEN payload
    ELSE AddFields(AddIfPresent(payload, node, FieldPairs[j][1], FieldPairs[j][2]),
                   node, j + 1)

\* The item of a node: node_type and depth always, then the fields present.
PlanItem(node, depth) ==
    AddFields(("node_type" :> Get(node, "Node Type")) @@ ("depth" :> Num(depth)),
              node, 1)

\* node.get("Plans", []) or []
ChildPlans(node) ==
    LET plans == IF "Plans" \in DOMAIN node.v THEN node.v["Plans"] ELSE List(<<>>)
    IN  IF Truthy(plans) THEN plans.v ELSE <<>>

RECURSIVE ExtractPlanNodes(_, _, _)
RECURSIVE ExtractChildren(_, _, _, _)

\* Mutant: the children are visited before their parent is appended.
ExtractPlanNodes_PostOrder(node, depth, out) ==
    Append(ExtractChildren(ChildPlans(node), 1, depth, out), PlanItem(node, depth))

ExtractPlanNodes(node, depth, out) ==
    ExtractChildren(ChildPlans(node), 1, depth, Append(out, PlanItem(node, depth)))

\* The loop over the children, from the j-th on.
ExtractChildren(kids, j, depth, out) ==
    IF j > Len(kids) THEN out
    ELSE ExtractChildren(kids, j + 1, depth,
                         IF IsDict(kids[j])
                         THEN ExtractPlanNodes(kids[j], depth + 1, out)
                         ELSE out)

DistillPlan(p) ==
    [ planning_time_ms  |-> SummarizePlan(p).planning_time,
      execution_time_ms |-> SummarizePlan(p).execution_time,
      top_actual_rows   |-> SummarizePlan(p).top_rows,
      plan_nodes        |-> IF IsDict(Get(p, "Plan"))
                            THEN ExtractPlanNodes(Get(p, "Plan"), 0, <<>>)
                            ELSE <<>> ]

\* One call of _distill_plan.
Distill ==
    /\ dpc = "start"
    /\ distilled' = DistillPlan(plan)
    /\ dpc' = "done"
    /\ UNCHANGED <<plan, splitVars, runVars>>

---------------------------------------------------------------------------
(* Plans given to the distiller *)

MaxNodes == 4

\* The fields of a node, by kind of node.  "Startup Cost" and "Output" are
\* fields EXPLAIN emits that the distiller does not copy.
NodeFields ==
    { ("Node Type" :> Str("Seq Scan")) @@ ("Relation Name" :> Str("posts"))
        @@ ("Actual Rows" :> Num(5)) @@ ("Filter" :> Str("(score > 3)"))
        @@ ("Startup Cost" :> Num(0)),
      ("Node Type" :> Str("Sort")) @@ ("Sort Key" :> List(<<Str("id")>>))
        @@ ("Plan Rows" :> Num(0)) @@ ("Plans" :> List(<<>>)),
      ("Node Type" :> Str("Limit")) @@ ("Filter" :> None)
        @@ ("Shared Hit Blocks" :> Num(2)) @@ ("Plans" :> None),
      ("Total Cost" :> Num(1)) @@ ("Output" :> List(<<Str("id")>>)) }

\* A node of the given fields over the given children.  Without children
\* the fields stand as they are: no "Plans", an empty list or null.
MakeNode(f, kids) ==
    IF kids = <<>> THEN Dict(f)
    ELSE Dict(Put(f, "Plans", List(kids)))

\* An element of a "Plans" list that is not a plan node.
Scalar == Str("not a node")

RECURSIVE TreesOfSize(_)
RECURSIVE ForestsOfSize(_)

\* The plan trees of n elements, and the child lists of m elements in all.
TreesOfSize(n) ==
    IF n < 1 THEN {}
    ELSE { MakeNode(f, kids) : f \in NodeFields, kids \in ForestsOfSize(n - 1) }

ForestsOfSize(m) ==
    IF m = 0 THEN {<<>>}
    ELSE UNION { { <<t>> \o rest :
                     t \in TreesOfSize(j) \cup (IF j = 1 THEN {Scalar} ELSE {}),
                     rest \in ForestsOfSize(m - j) } : j \in 1..m }

PlanTrees == UNION { TreesOfSize(n) : n \in 1..MaxNodes }

\* What EXPLAIN (FORMAT JSON) returns for a plan tree; and, for the guards
\* of the distiller, an answer without timings and one without a tree.
RawPlans ==
    { Dict(("Plan" :> t) @@ ("Planning Time" :> Num(1)) @@ ("Execution Time" :> Num(2)))
        : t \in PlanTrees }
    \cup { Dict("Plan" :> t) : t \in TreesOfSize(1) }
    \cup { Dict("Planning Time" :> Num(1)), Dict("Plan" :> None) }

---------------------------------------------------------------------------
(* main, _run_queries and _write_summary *)

MaxStatements == 3

\* Statements of an input file, as the splitter returns them.
RunStatements == { <<"a">>, <<"$", "$", ";", "$", "$">> }

StatementLists == UNION { [1..n -> RunStatements] : n \in 0..MaxStatements }

\* What the database may answer to one EXPLAIN, and the round trips measured.
RunPlans ==
    { Dict(("Plan" :> t) @@ ("Planning Time" :> Num(1)) @@ ("Execution Time" :> Num(2)))
        : t \in { n \in TreesOfSize(1) :
                    Get(n, "Node Type") \in {Str("Seq Scan"), Str("Sort")} } }
ElapsedMs == {1, 2}

\* format(idx, "03d"): the decimal digits, zero-padded to three at least.
Digit(d) == <<"0", "1", "2", "3", "4", "5", "6", "7", "8", "9">>[d + 1]

RECURSIVE Decimal(_)
Decimal(n) == IF n < 10 THEN Digit(n) ELSE Decimal(n \div 10) \o Digit(n % 10)

RECURSIVE ZeroPad(_, _)
ZeroPad(str, width) == IF Len(str) >= width THEN str ELSE ZeroPad("0" \o str, width)

\* Mutant: the index is written without padding.
PlanFilename_Unpadded(n) == "query_" \o Decimal(n) \o "_plan.json"

PlanFilename(n) == "query_" \o ZeroPad(Decimal(n), 3) \o "_plan.json"

\* The QueryResult of the current iteration.
NewResult ==
    [ query_index       |-> idx,
      query             |-> queries[idx],
      plan_file         |-> PlanFilename(idx),
      planning_time_ms  |-> DistillPlan(raw_plan).planning_time_ms,
      execution_time_ms |-> DistillPlan(raw_plan).execution_time_ms,
      client_time_ms    |-> elapsed_ms,
      top_actual_rows   |-> DistillPlan(raw_plan).top_actual_rows ]

\* The payload of a summary line.
SummaryLine(r) ==
    [ query_index       |-> r.query_index,
      query             |-> r.query,
      plan_file         |-> r.plan_file,
      planning_time_ms  |-> r.planning_time_ms,
      execution_time_ms |-> r.execution_time_ms,
      client_time_ms    |-> r.client_time_ms,
      top_actual_rows   |-> r.top_actual_rows ]

NoSummary == [written |-> FALSE, lines |-> <<>>]

\* main up to the loop: the output directory, the connection, the
\* statement timeout, and the input file read and split.
Connect ==
    /\ rpc = "start"
    /\ rpc' = "loop"
    /\ UNCHANGED <<queries, idx, raw_plan, elapsed_ms, results, files, summary,
                   error, submitted, splitVars, planVars>>

\* One of them raises: nothing was submitted or written.
ConnectFails ==
    /\ rpc = "start"
    /\ rpc' = "failed"
    /\ error' = "setup"
    /\ UNCHANGED <<queries, idx, raw_plan, elapsed_ms, results, files, summary,
                   submitted, splitVars, planVars>>

\* _run_explain returns a plan for statement idx.
RunExplain ==
    /\ rpc = "loop" /\ idx <= Len(queries)
    /\ submitted' = Append(submitted, queries[idx])
    /\ \E answer \in RunPlans : raw_plan' = answer
    /\ \E ms \in ElapsedMs : elapsed_ms' = ms
    /\ rpc' = "persist"
    /\ UNCHANGED <<queries, idx, results, files, summary, error,
                   splitVars, planVars>>

\* Mutant: the failure of one statement is recorded and the loop goes on
\* with the next statement.
RunExplainFails_Continues ==
    /\ rpc = "loop" /\ idx <= Len(queries)
    /\ submitted' = Append(submitted, queries[idx])
    /\ \E cause \in {"execute", "no rows"} : error' = cause
    /\ idx' = idx + 1
    /\ rpc' = "loop"
    /\ UNCHANGED <<queries, raw_plan, elapsed_ms, results, files, summary,
                   splitVars, planVars>>

\* cursor.execute raises (syntax, timeout, connection), or fetchone()
\* returns None and RuntimeError is raised.
RunExplainFails ==
    /\ rpc = "loop" /\ idx <= Len(queries)
    /\ submitted' = Append(submitted, queries[idx])
    /\ \E cause \in {"execute", "no rows"} : error' = cause
    /\ rpc' = "failed"
    /\ UNCHANGED <<queries, idx, raw_plan, elapsed_ms, results, files, summary,
                   splitVars, planVars>>

\* The rest of the iteration: the plan is distilled and written, the
\* QueryResult appended, and the loop moves on.
PersistPlan ==
    /\ rpc = "persist"
    /\ files' = Put(files, PlanFilename(idx), DistillPlan(raw_plan))
    /\ results' = Append(results, NewResult)
    /\ idx' = idx + 1
    /\ rpc' = "loop"
    /\ UNCHANGED <<queries, raw_plan, elapsed_ms, summary, error, submitted,
                   splitVars, planVars>>

\* Mutant: when the artifact write fails, the results gathered so far are
\* still flushed to the summary.
PersistPlanFails_SummaryFlushed ==
    /\ rpc = "persist"
    /\ \/ files' = files
       \/ files' = Put(files, PlanFilename(idx), Str("cut short"))
    /\ summary' = [written |-> TRUE,
                   lines   |-> [j \in 1..Len(results) |-> SummaryLine(results[j])]]
    /\ error' = "write"
    /\ rpc' = "failed"
    /\ UNCHANGED <<queries, idx, raw_plan, elapsed_ms, results,
                   submitted, splitVars, planVars>>

\* _write_json raises: in open() with nothing written, or in json.dump
\* with the file created and cut short.
PersistPlanFails ==
    /\ rpc = "persist"
    /\ \/ files' = files
       \/ files' = Put(files, PlanFilename(idx), Str("cut short"))
    /\ error' = "write"
    /\ rpc' = "failed"
    /\ UNCHANGED <<queries, idx, raw_plan, elapsed_ms, results, summary,
                   submitted, splitVars, planVars>>

\* The loop is over: _run_queries returns and _write_summary writes one
\* line per QueryResult.
WriteSummary ==
    /\ rpc = "loop" /\ idx > Len(queries)
    /\ summary' = [written |-> TRUE,
                   lines   |-> [j \in 1..Len(results) |-> SummaryLine(results[j])]]
    /\ rpc' = "finished"
    /\ UNCHANGED <<queries, idx, raw_plan, elapsed_ms, results, files, error,
                   submitted, splitVars, planVars>>

\* _write_summary raises: in open(), or after some of the lines.
WriteSummaryFails ==
    /\ rpc = "loop" /\ idx > Len(queries)
    /\ \/ summary' = summary
       \/ \E cut \in 0..Len(results) :
             summary' = [written |-> TRUE,
                         lines   |-> [j \in 1..cut |-> SummaryLine(results[j])]]
    /\ error' = "summary"
    /\ rpc' = "failed"
    /\ UNCHANGED <<queries, idx, raw_plan, elapsed_ms, results, files,
                   submitted, splitVars, planVars>>

RunStep ==
    \/ Connect
    \/ ConnectFails
    \/ RunExplain
    \/ RunExplainFails
    \/ PersistPlan
    \/ PersistPlanFails
    \/ WriteSummary
    \/ WriteSummaryFails

---------------------------------------------------------------------------
(* Specifications *)

SplitIdle ==
    /\ text = <<>> /\ i = 1 /\ buf = <<>> /\ statements = <<>>
    /\ in_single = FALSE /\ in_double = FALSE
    /\ in_line_comment = FALSE /\ in_block_comment = FALSE
    /\ in_dollar = <<>>
    /\ pc = "idle"
    /\ normal_semis = 0
    /\ pass = 1
    /\ first = <<>>
    /\ first_balanced = FALSE

PlanIdle ==
    /\ plan = None
    /\ distilled = None
    /\ dpc = "idle"

RunIdle ==
    /\ queries = <<>> /\ idx = 1
    /\ raw_plan = None /\ elapsed_ms = 0
    /\ results = <<>> /\ files = <<>> /\ summary = NoSummary
    /\ rpc = "idle" /\ error = "none" /\ submitted = <<>>

\* The splitter on every input of the bounds.
InitSplit ==
    /\ \E t \in Texts : SplitStart(t)
    /\ pass = 1
    /\ first = <<>>
    /\ first_balanced = FALSE
    /\ PlanIdle
    /\ RunIdle

NextSplit == ScanStep

SpecSplit == InitSplit /\ [][NextSplit]_vars

\* The splitter as it runs: the loop is the only thread of control, so an
\* iteration that can be taken is taken.
SpecSplitFair == SpecSplit /\ WF_vars(NextSplit)

\* The splitter, then the round trip.
NextResplit == ScanStep \/ Rejoin

SpecResplit == InitSplit /\ [][NextResplit]_vars

\* The distiller on every plan of the bounds.
InitPlan ==
    /\ plan \in RawPlans
    /\ distilled = None
    /\ dpc = "start"
    /\ SplitIdle
    /\ RunIdle

NextPlan == Distill

SpecPlan == InitPlan /\ [][NextPlan]_vars

\* A run of main over every statement list of the bounds.
InitRun ==
    /\ \E ss \in StatementLists : queries = IterQueries(ss)
    /\ idx = 1
    /\ raw_plan = None /\ elapsed_ms = 0
    /\ results = <<>> /\ files = <<>> /\ summary = NoSummary
    /\ rpc = "start" /\ error = "none" /\ submitted = <<>>
    /\ SplitIdle
    /\ PlanIdle

NextRun == RunStep

SpecRun == InitRun /\ [][NextRun]_vars

---------------------------------------------------------------------------
(* Properties of the splitter *)

\* A step of the scan loop (not the return, not the re-split).
LoopStep == pc = "scan" /\ pc' = "scan"

\* The characters the step consumed.
Consumed == SubSeq(text, i, i' - 1)

HasNonSpace(s) == \E j \in 1..Len(s) : ~IsSpace(s[j])

\* s is b without its leading and trailing whitespace.
IsTrimOf(s, b) ==
    /\ s # <<>> /\ ~IsSpace(s[1]) /\ ~IsSpace(s[Len(s)])
    /\ \E a \in 0..Len(b) :
          /\ a + Len(s) <= Len(b)
          /\ SubSeq(b, a + 1, a + Len(s)) = s
          /\ \A j \in 1..a : IsSpace(b[j])
          /\ \A j \in (a + Len(s) + 1)..Len(b) : IsSpace(b[j])

NumSemis(t) == Cardinality({ j \in 1..Len(t) : t[j] = ";" })

\* C1: a ; ends a statement only when it is scanned with every mode flag
\* off: a step of the loop that emits a statement reads a ; in Normal mode,
\* so during the scan there are at most as many statements as Normal-mode ;
\* and the returned list has at most one more.
C1_SplitOnlyAtNormalSemicolon ==
    /\ pc = "scan" => Len(statements) <= normal_semis
    /\ pc = "done" => Len(statements) <= normal_semis + 1

\* C1 witness: a finished split whose input holds more ; than were scanned
\* in Normal mode (one sits in a quote, a comment or a dollar region) and
\* that returned a statement.
C1_Witness ==
    /\ pc = "done"
    /\ NumSemis(text) > normal_semis
    /\ Len(statements) >= 1

\* C2: for an input that leaves no quote, block comment or dollar tag open,
\* joining the statements of the split with ";" and splitting the joined
\* text returns the same statements.
C2_ResplitSame ==
    (pc = "done" /\ pass = 2 /\ first_balanced) => statements = first

\* C2 witness: a finished re-split of a balanced input whose statement
\* holds a protected ; (so the re-split must honour the quoting again).
C2_Witness ==
    /\ pc = "done" /\ pass = 2 /\ first_balanced
    /\ \E k \in 1..Len(first) : NumSemis(first[k]) > 0

\* p starts a dollar tag of t ending at e: $, then [A-Za-z0-9_]*, then $.
IsTagAt(t, p, e) ==
    /\ p < e /\ e <= Len(t)
    /\ t[p] = "$" /\ t[e] = "$"
    /\ \A j \in (p + 1)..(e - 1) : t[j] \in TagChars

\* C3: in Normal mode a $tag$ opens a dollar-quoted region with that tag;
\* inside the region every step copies the characters it consumes
\* verbatim, emits no statement, and the region is left exactly when the
\* identical tag stands at the read position, which is copied too.
C3_DollarRegionVerbatim ==
    [][ LoopStep =>
          /\ (NormalMode /\ i <= Len(text) /\ \E e \in 1..Len(text) : IsTagAt(text, i, e))
                => in_dollar' # <<>>
          /\ (in_dollar = <<>> /\ in_dollar' # <<>>) =>
                /\ NormalMode
                /\ IsTagAt(text, i, i' - 1)
                /\ in_dollar' = Consumed
                /\ buf' = buf \o Consumed
                /\ statements' = statements
          /\ in_dollar # <<>> =>
                /\ buf' = buf \o Consumed
                /\ statements' = statements
                /\ in_dollar' \in {in_dollar, <<>>}
                /\ (in_dollar' = <<>>) <=> StartsWith(text, in_dollar, i)
                /\ (in_dollar' = <<>>) => Consumed = in_dollar
      ]_vars

\* C3 witness: `$$;$$` was split into the one statement `$$;$$`.
C3_Witness ==
    /\ pc = "done"
    /\ text = <<"$", "$", ";", "$", "$">>
    /\ in_dollar = <<>>
    /\ statements = <<text>>

\* C4: inside '...' (resp. "...") every step copies the characters it
\* consumes verbatim and emits no statement; a doubled quote is consumed as
\* one escaped quote and keeps the mode, and the mode is left exactly at a
\* quote that is not followed by another one.
C4_QuotedRegionVerbatim ==
    [][ LoopStep =>
          /\ in_single =>
                /\ buf' = buf \o Consumed
                /\ statements' = statements
                /\ (Ch = "'" /\ Nxt = "'") => (in_single' /\ i' = i + 2)
                /\ ~in_single' <=> (Ch = "'" /\ Nxt # "'")
          /\ in_double =>
                /\ buf' = buf \o Consumed
                /\ statements' = statements
                /\ (Ch = "\"" /\ Nxt = "\"") => (in_double' /\ i' = i + 2)
                /\ ~in_double' <=> (Ch = "\"" /\ Nxt # "\"")
      ]_vars

\* C4 witness: after `'` and the escaped `''` the scan is still inside the
\* string and has copied all three quotes.
C4_Witness ==
    /\ pc = "scan" /\ in_single
    /\ i = 4
    /\ SubSeq(text, 1, 3) = <<"'", "'", "'">>
    /\ buf = SubSeq(text, 1, 3)

\* The step enters a line or a block comment.
EntersComment ==
    \/ ~in_line_comment /\ in_line_comment'
    \/ ~in_block_comment /\ in_block_comment'

InComment == in_line_comment \/ in_block_comment

\* C5 as claimed: entering a comment after a non-whitespace input character
\* inserts one space, and no character of a comment is copied.
C5_SpaceAfterNonSpaceInput ==
    [][ LoopStep =>
          /\ (EntersComment /\ i > 1 /\ ~IsSpace(text[i - 1]))
                => buf' = Append(buf, " ")
          /\ InComment => (buf' = buf /\ statements' = statements)
      ]_vars

\* C5 amended: entering a comment inserts one space exactly when the
\* statement text accumulated so far is non-empty and does not end in
\* whitespace (nothing after a statement-ending ; or right after another
\* comment); the rule is the same for both comment kinds; no character of
\* the opener or of the comment is copied.
C5_SpaceAfterNonSpaceBuffer ==
    [][ LoopStep =>
          /\ EntersComment =>
                /\ buf' = (IF buf # <<>> /\ ~IsSpace(buf[Len(buf)])
                           THEN Append(buf, " ") ELSE buf)
                /\ statements' = statements
          /\ InComment => (buf' = buf /\ statements' = statements)
      ]_vars

\* C5 witness: `a/*` has put exactly one space after the a.
C5_Witness ==
    /\ pc = "scan" /\ in_block_comment
    /\ i = 4
    /\ SubSeq(text, 1, 3) = <<"a", "/", "*">>
    /\ buf = <<"a", " ">>

\* C6: at the end of the input the remaining statement text, when it is
\* not all whitespace, is appended (trimmed) after the statements already
\* emitted; otherwise the list is returned as it is.
C6_TailEmittedLast ==
    [][ (pc = "scan" /\ pc' = "done") =>
          IF HasNonSpace(buf)
          THEN /\ Len(statements') = Len(statements) + 1
               /\ SubSeq(statements', 1, Len(statements)) = statements
               /\ IsTrimOf(statements'[Len(statements')], buf)
          ELSE statements' = statements
      ]_vars

\* C6 witness: a finished split with one statement ended by ; and a second
\* one taken from the unterminated tail.
C6_Witness ==
    /\ pc = "done"
    /\ normal_semis = 1
    /\ Len(statements) = 2
    /\ text[Len(text)] # ";"
    /\ IsTrimOf(statements[2], buf)

\* C7: every statement of the splitter is non-empty and neither starts nor
\* ends with whitespace, so _iter_queries yields them all unchanged.
C7_StatementsTrimmedNonEmpty ==
    /\ \A k \in 1..Len(statements) :
          /\ statements[k] # <<>>
          /\ ~IsSpace(statements[k][1])
          /\ ~IsSpace(statements[k][Len(statements[k])])
    /\ IterQueries(statements) = statements

\* C7 witness: two ; were scanned in Normal mode (two terminated segments)
\* and an empty or blank one of them produced no statement.
C7_Witness ==
    /\ pc = "done"
    /\ normal_semis = 2
    /\ Len(statements) <= 1

---------------------------------------------------------------------------
(* Properties of the distiller *)

\* The tree of the raw plan and the list the distiller returned.
Root == Get(plan, "Plan")
Nodes == distilled.plan_nodes

\* The "Plans" list of a source node, empty when it has none.
SourceChildren(node) ==
    IF "Plans" \in DOMAIN node.v /\ node.v["Plans"].k = "list"
    THEN node.v["Plans"].v
    ELSE <<>>

\* The nodes of a tree, each named by its path: the positions to follow
\* through the "Plans" lists, from the root (<<>>) down.
RECURSIVE PathsOf(_)
PathsOf(node) ==
    {<<>>} \cup
    UNION { { <<j>> \o q : q \in PathsOf(SourceChildren(node)[j]) } :
              j \in { c \in 1..Len(SourceChildren(node)) :
                        IsDict(SourceChildren(node)[c]) } }

RECURSIVE NodeAt(_, _)
NodeAt(node, path) ==
    IF path = <<>> THEN node
    ELSE NodeAt(SourceChildren(node)[Head(path)], Tail(path))

\* p comes before q in preorder: p is an ancestor of q, or where the two
\* paths part p takes the earlier sibling.
Before(p, q) ==
    \E j \in 1..Len(q) :
        /\ j <= Len(p) + 1
        /\ SubSeq(p, 1, j - 1) = SubSeq(q, 1, j - 1)
        /\ (j = Len(p) + 1 \/ p[j] < q[j])

\* The place of the node at path p in the preorder of the tree.
Rank(p) == 1 + Cardinality({ q \in PathsOf(Root) : Before(q, p) })

Parent(p) == SubSeq(p, 1, Len(p) - 1)

\* C8: plan_nodes is the preorder of the plan tree: one element per node,
\* the root first with depth 0, every node after its parent and after its
\* earlier siblings' subtrees, with its parent's depth plus 1.
C8_PreorderWithDepths ==
    dpc = "done" =>
        IF IsDict(Root)
        THEN /\ Len(Nodes) = Cardinality(PathsOf(Root))
             /\ Nodes[1]["depth"] = Num(0)
             /\ \A p \in PathsOf(Root) :
                   /\ Nodes[Rank(p)]["node_type"] = Get(NodeAt(Root, p), "Node Type")
                   /\ Nodes[Rank(p)]["depth"] = Num(Len(p))
                   /\ p # <<>> =>
                        /\ Rank(Parent(p)) < Rank(p)
                        /\ Nodes[Rank(p)]["depth"].v
                             = Nodes[Rank(Parent(p))]["depth"].v + 1
        ELSE Nodes = <<>>

\* C8 witness: a tree of depth 3 with a second child after the first
\* child's subtree was flattened to the depths 0, 1, 2, 1.
C8_Witness ==
    /\ dpc = "done"
    /\ IsDict(Root)
    /\ Len(Nodes) = 4
    /\ [j \in 1..4 |-> Nodes[j]["depth"].v] = <<0, 1, 2, 1>>

\* The output keys of the optional fields.
OutKeys == { FieldPairs[j][2] : j \in 1..Len(FieldPairs) }

\* C9 as claimed: the operator type and every other field of the
\* allow-list is in an output node only if the source node has it, and is
\* never null there.
C9_AllFieldsOnlyIfPresent ==
    (dpc = "done" /\ IsDict(Root)) =>
        \A p \in PathsOf(Root) :
            LET item == Nodes[Rank(p)]
                src  == NodeAt(Root, p)
            IN  /\ "node_type" \in DOMAIN item =>
                      ("Node Type" \in DOMAIN src.v /\ item["node_type"] # None)
                /\ \A j \in 1..Len(FieldPairs) :
                      FieldPairs[j][2] \in DOMAIN item =>
                          /\ FieldPairs[j][1] \in DOMAIN src.v
                          /\ item[FieldPairs[j][2]] # None

\* C9 amended: every field of the allow-list but the operator type is in
\* an output node only if the source node has it, with the source's value
\* and never null; node_type and depth are in every output node, node_type
\* null when the source node has no "Node Type"; nothing else is emitted.
C9_OptionalFieldsOnlyIfPresent ==
    (dpc = "done" /\ IsDict(Root)) =>
        \A p \in PathsOf(Root) :
            LET item == Nodes[Rank(p)]
                src  == NodeAt(Root, p)
            IN  /\ DOMAIN item \subseteq {"node_type", "depth"} \cup OutKeys
                /\ {"node_type", "depth"} \subseteq DOMAIN item
                /\ item["node_type"] =
                      (IF "Node Type" \in DOMAIN src.v THEN src.v["Node Type"] ELSE None)
                /\ \A j \in 1..Len(FieldPairs) :
                      FieldPairs[j][2] \in DOMAIN item =>
                          /\ FieldPairs[j][1] \in DOMAIN src.v
                          /\ item[FieldPairs[j][2]] # None
                          /\ item[FieldPairs[j][2]] = src.v[FieldPairs[j][1]]

\* C9 witness: a distilled node below the root whose source has a sort key
\* and no filter: the output has "sort_key" and no "filter".
C9_Witness ==
    /\ dpc = "done"
    /\ IsDict(Root)
    /\ \E p \in PathsOf(Root) \ {<<>>} :
          /\ "Sort Key" \in DOMAIN NodeAt(Root, p).v
          /\ "Filter" \notin DOMAIN NodeAt(Root, p).v
          /\ "sort_key" \in DOMAIN Nodes[Rank(p)]
          /\ "filter" \notin DOMAIN Nodes[Rank(p)]

---------------------------------------------------------------------------
(* Properties of the run *)

\* query_<k in three digits>_plan.json, for k below 1000.
ThreeDigitName(k) ==
    "query_" \o Digit(k \div 100) \o Digit((k \div 10) % 10) \o Digit(k % 10)
             \o "_plan.json"

\* C10: a run that ended without failure over n statements wrote exactly n
\* plan artifacts and a summary of n lines; the k-th statement has
\* query_index k, the artifact query_<k in three digits>_plan.json, and
\* the k-th summary line, whose plan_file is that name and whose timings
\* are those of the artifact; no two statements share an artifact name.
C10_OneArtifactAndLinePerStatement ==
    rpc = "finished" =>
        /\ Len(results) = Len(queries)
        /\ DOMAIN files = { ThreeDigitName(k) : k \in 1..Len(queries) }
        /\ Cardinality(DOMAIN files) = Len(queries)
        /\ summary.written
        /\ Len(summary.lines) = Len(queries)
        /\ \A k \in 1..Len(queries) :
              /\ results[k].query_index = k
              /\ summary.lines[k].query_index = k
              /\ summary.lines[k].query = queries[k]
              /\ summary.lines[k].plan_file = ThreeDigitName(k)
              /\ files[ThreeDigitName(k)].planning_time_ms
                    = summary.lines[k].planning_time_ms
              /\ files[ThreeDigitName(k)].top_actual_rows
                    = summary.lines[k].top_actual_rows

\* C10 witness: a finished run over two different statements, with the
\* two artifacts and the two-line summary.
C10_Witness ==
    /\ rpc = "finished"
    /\ Len(queries) = 2
    /\ queries[1] # queries[2]
    /\ DOMAIN files = {"query_001_plan.json", "query_002_plan.json"}
    /\ Len(summary.lines) = 2
    /\ summary.lines[2].plan_file = "query_002_plan.json"

\* The failure of an execution: cursor.execute raised, or no row came back.
ExecutionFailed == error \in {"execute", "no rows"}

\* C11: once the execution of the k-th statement has failed, the run is
\* over at k: the statements submitted are exactly statements 1..k (none
\* with a greater index), and the QueryResults and the plan artifacts are
\* those of statements 1..k-1 (none for statement k or a later one).
C11_ExecutionFailureAborts ==
    ExecutionFailed =>
        /\ rpc = "failed"
        /\ idx \in 1..Len(queries)
        /\ submitted = SubSeq(queries, 1, idx)
        /\ Len(results) = idx - 1
        /\ \A j \in 1..Len(results) : results[j].query_index < idx
        /\ DOMAIN files = { ThreeDigitName(j) : j \in 1..(idx - 1) }
        /\ ~ENABLED NextRun

\* C11 witness: of three statements the second fails for want of a row;
\* the third was never submitted and only the first has an artifact.
C11_Witness ==
    /\ error = "no rows"
    /\ Len(queries) = 3
    /\ idx = 2
    /\ Len(submitted) = 2
    /\ Len(results) = 1
    /\ DOMAIN files = {"query_001_plan.json"}

\* The failure of a statement: of its execution or of its artifact write.
StatementFailed == error \in {"execute", "no rows", "write"}

\* The artifact of statement j is on disk, whole, as its QueryResult
\* describes it.
ArtifactOnDisk(j) ==
    /\ ThreeDigitName(j) \in DOMAIN files
    /\ files[ThreeDigitName(j)] # Str("cut short")
    /\ files[ThreeDigitName(j)].planning_time_ms = results[j].planning_time_ms
    /\ files[ThreeDigitName(j)].top_actual_rows = results[j].top_actual_rows

\* C12: whenever the summary file has been opened for writing, every
\* statement has already been submitted, and distilled and persisted into
\* its artifact, so that no execution and no artifact write follows the
\* summary write; and once the k-th statement has failed, in its execution
\* or in its artifact write, the run is over with no summary written and
\* with the artifacts of statements 1..k-1 on disk.
C12_SummaryAfterAllStatements ==
    /\ summary.written =>
          /\ rpc \in {"finished", "failed"}
          /\ idx = Len(queries) + 1
          /\ submitted = queries
          /\ Len(results) = Len(queries)
          /\ \A j \in 1..Len(queries) : ArtifactOnDisk(j)
    /\ StatementFailed =>
          /\ rpc = "failed"
          /\ ~ENABLED NextRun
          /\ summary = NoSummary
          /\ idx \in 1..Len(queries)
          /\ \A j \in 1..(idx - 1) : ArtifactOnDisk(j)

\* C12 witness: of three statements the third fails in its artifact write,
\* which leaves a file cut short; the two artifacts before it are on disk
\* and no summary exists.
C12_Witness ==
    /\ error = "write"
    /\ Len(queries) = 3
    /\ idx = 3
    /\ ~summary.written
    /\ DOMAIN files = {"query_001_plan.json", "query_002_plan.json",
                       "query_003_plan.json"}
    /\ files["query_003_plan.json"] = Str("cut short")
    /\ ArtifactOnDisk(1) /\ ArtifactOnDisk(2)

---------------------------------------------------------------------------
(* Properties of the scanner state *)

\* The five mode flags, in_dollar counting as set when it holds a tag.
ModeFlags ==
    <<in_single, in_double, in_line_comment, in_block_comment, in_dollar # <<>>>>

ActiveFlags == Cardinality({ k \in 1..5 : ModeFlags[k] })

\* A dollar tag: $, characters of the tag class, $.
IsTag(t) ==
    /\ Len(t) >= 2
    /\ t[1] = "$" /\ t[Len(t)] = "$"
    /\ \A k \in 2..(Len(t) - 1) : t[k] \in TagChars

\* C13: in every state of the scan, before and after each iteration and
\* at the return, at most one of in_single, in_double, in_line_comment,
\* in_block_comment and in_dollar is set, and in_dollar, when set, is a
\* dollar tag: the state is one of Normal, SingleQuoted, DoubleQuoted,
\* LineComment, BlockComment, DollarQuoted(tag).
C13_AtMostOneModeFlag ==
    /\ ActiveFlags <= 1
    /\ in_dollar # <<>> => IsTag(in_dollar)

\* C13 witness: the scan is inside a single-quoted region and has just
\* read --, which opens a comment elsewhere; in_single alone is set.
C13_Witness ==
    /\ pc = "scan"
    /\ in_single /\ ActiveFlags = 1
    /\ i > 2
    /\ text[i - 2] = "-" /\ text[i - 1] = "-"

\* Some mode flag is set: a quote, a comment or a dollar region is open.
RegionOpen == ActiveFlags > 0

\* C14: the scan terminates on every input.  An iteration of the loop
\* moves the read position forward by one character at least, and no
\* step moves it back; the position never passes the end of the text;
\* while the scan has not returned some branch applies and changes the
\* state (nothing raises, nothing stalls), also at the end of the text
\* with a region open; and the scan does return.
C14_ScanTerminates ==
    /\ [][(LoopStep => i' > i) /\ i' >= i]_vars
    /\ [](pc = "scan" => i \in 1..(Len(text) + 1))
    /\ [](pc = "scan" => ENABLED <<NextSplit>>_vars)
    /\ <>(pc = "done")

\* C14 witness: the scan has returned at the end of a text of three
\* characters at least, with a region still open and a statement emitted.
C14_Witness ==
    /\ pc = "done"
    /\ Len(text) >= 3
    /\ i = Len(text) + 1
    /\ RegionOpen
    /\ statements # <<>>

=============================================================================
